---- MODULE Spec2Model ----
(***************************************************************************)
(* Model of .github/scripts/update_readme_weather.py: the weather fetch    *)
(* with provider fallback, the keyword classifier, the rolling-log merge   *)
(* (build_new_block) and the marker-delimited README update.               *)
(*                                                                         *)
(* Text is a sequence of atoms.  An atom is a single character, an opaque  *)
(* literal chunk, or one of the fixed strings of the script (the two       *)
(* markers, the banner line, the header line) or the rendered prefix       *)
(* "- YYYY-MM-DD HH:MM UTC -- " of a log entry, which carries its digits.   *)
(***************************************************************************)
EXTENDS Integers, Sequences, FiniteSets, TLC

(* ---------------------------- atoms of text --------------------------- *)

Atom(k, c, ymd, hm) == [k |-> k, c |-> c, ymd |-> ymd, hm |-> hm]

Ch(c) == Atom("ch", c, 0, 0)

Lit(c) == Atom("lit", c, 0, 0)

NL == Atom("nl", "", 0, 0)

SP == Ch(" ")

BS == Atom("bs", "", 0, 0)

START == Atom("START", "", 0, 0)

END == Atom("END", "", 0, 0)

BANNER == Atom("banner", "", 0, 0)

HEADER == Atom("header", "", 0, 0)

\* "- {ymd as YYYY-MM-DD} {hm as HH:MM} UTC -- "
Stamp(ymd, hm) == Atom("stamp", "", ymd, hm)

Str(t) == [i \in 1..Len(t) |-> Ch(t[i])]

KEEP_DAYS == 10

banner_line == <<BANNER>>

header == <<HEADER>>

(* ------------------------- str methods used --------------------------- *)

IsSpace(a) == a = SP \/ a = NL

RECURSIVE lstrip(_)
lstrip(s) == IF s # <<>> /\ IsSpace(Head(s)) THEN lstrip(Tail(s)) ELSE s

RECURSIVE rstrip(_)
rstrip(s) ==
    IF s # <<>> /\ IsSpace(s[Len(s)]) THEN rstrip(SubSeq(s, 1, Len(s) - 1)) ELSE s

strip(s) == lstrip(rstrip(s))

In(a, s) == \E i \in 1..Len(s) : s[i] = a

\* position of the first newline of s, 0 when there is none
Min(S) == CHOOSE x \in S : \A y \in S : x <= y

Max(S) == CHOOSE x \in S : \A y \in S : x >= y

\* position of the first a in s at or after from, 0 when there is none
First(a, s, from) ==
    LET at == {i \in from..Len(s) : s[i] = a} IN IF at = {} THEN 0 ELSE Min(at)

FirstNL(s) == First(NL, s, 1)

RECURSIVE splitlines(_)
splitlines(s) ==
    IF s = <<>> THEN <<>>
    ELSE LET n == FirstNL(s) IN
         IF n = 0 THEN <<s>>
         ELSE <<SubSeq(s, 1, n - 1)>> \o splitlines(SubSeq(s, n + 1, Len(s)))

RECURSIVE join(_)
join(lines) ==
    IF lines = <<>> THEN <<>>
    ELSE IF Len(lines) = 1 THEN lines[1]
    ELSE lines[1] \o <<NL>> \o join(Tail(lines))

Upper == {"A","B","C","D","E","F","G","H","I","J","K","L","M","N","O","P","Q","R","S","T","U","V","W","X","Y","Z"}

LowerOf ==
    [A |-> "a", B |-> "b", C |-> "c", D |-> "d", E |-> "e", F |-> "f", G |-> "g",
     H |-> "h", I |-> "i", J |-> "j", K |-> "k", L |-> "l", M |-> "m", N |-> "n",
     O |-> "o", P |-> "p", Q |-> "q", R |-> "r", S |-> "s", T |-> "t", U |-> "u",
     V |-> "v", W |-> "w", X |-> "x", Y |-> "y", Z |-> "z"]

lower(s) ==
    [i \in 1..Len(s) |->
        IF s[i].k = "ch" /\ s[i].c \in Upper THEN Ch(LowerOf[s[i].c]) ELSE s[i]]

\* k in t, for str
Contains(t, k) ==
    \E i \in 0..(Len(t) - Len(k)) : \A j \in 1..Len(k) : t[i + j] = k[j]

(* ------------------------------ dates --------------------------------- *)

IsLeap(y) == y % 4 = 0 /\ (y % 100 # 0 \/ y % 400 = 0)

DaysInMonth(y, m) ==
    IF m = 2 THEN (IF IsLeap(y) THEN 29 ELSE 28)
    ELSE IF m \in {4, 6, 9, 11} THEN 30 ELSE 31

RECURSIVE DaysBeforeMonth(_, _)
DaysBeforeMonth(y, m) ==
    IF m <= 1 THEN 0 ELSE DaysBeforeMonth(y, m - 1) + DaysInMonth(y, m - 1)

DaysBeforeYear(y) ==
    (y - 1) * 365 + ((y - 1) \div 4) - ((y - 1) \div 100) + ((y - 1) \div 400)

YearOf(ymd) == ymd \div 10000

MonthOf(ymd) == (ymd \div 100) % 100

DayOf(ymd) == ymd % 100

\* dt.date.fromisoformat accepts the digits of a matched line iff they name a day
ValidDate(ymd) ==
    /\ YearOf(ymd) >= 1
    /\ MonthOf(ymd) \in 1..12
    /\ DayOf(ymd) \in 1..DaysInMonth(YearOf(ymd), MonthOf(ymd))

\* the date as a day number (date.toordinal)
fromisoformat(ymd) ==
    DaysBeforeYear(YearOf(ymd)) + DaysBeforeMonth(YearOf(ymd), MonthOf(ymd)) + DayOf(ymd)

\* the year that holds day number n
OrdYear(n) ==
    CHOOSE y \in ((n \div 366) + 1)..((n \div 365) + 1) :
        DaysBeforeYear(y) < n /\ n <= DaysBeforeYear(y + 1)

OrdMonth(n) ==
    CHOOSE m \in 1..12 :
        /\ DaysBeforeMonth(OrdYear(n), m) < n - DaysBeforeYear(OrdYear(n))
        /\ n - DaysBeforeYear(OrdYear(n)) <= DaysBeforeMonth(OrdYear(n), m) + DaysInMonth(OrdYear(n), m)

\* strftime("%Y-%m-%d") of day number n, as the digits YYYYMMDD
strftime_date(n) ==
    OrdYear(n) * 10000 + OrdMonth(n) * 100
      + (n - DaysBeforeYear(OrdYear(n)) - DaysBeforeMonth(OrdYear(n), OrdMonth(n)))

\* strftime("%H:%M") of a minute of the day, as the digits HHMM
strftime_time(minute) == (minute \div 60) * 100 + (minute % 60)

(* --------------------------- classify_weather ------------------------- *)

thunder_keys == {Str(<<"t","h","u","n","d","e","r">>), Str(<<"s","t","o","r","m">>)}

snow_keys == {Str(<<"s","n","o","w">>), Str(<<"s","l","e","e","t">>), Str(<<"b","l","i","z","z","a","r","d">>)}

rain_keys == {Str(<<"r","a","i","n">>), Str(<<"d","r","i","z","z","l","e">>), Str(<<"s","h","o","w","e","r">>)}

fog_keys == {Str(<<"f","o","g">>), Str(<<"m","i","s","t">>), Str(<<"h","a","z","e">>)}

cloud_keys == {Str(<<"o","v","e","r","c","a","s","t">>), Str(<<"c","l","o","u","d">>)}

wind_key == Str(<<"w","i","n","d">>)

any_in(keys, t) == \E k \in keys : Contains(t, k)

\* the rain family tested before the thunder family
classify_weather_rain_first(weather_text) ==
    LET t == lower(weather_text) IN
    IF any_in(rain_keys, t) THEN "rain"
    ELSE IF any_in(thunder_keys, t) THEN "thunder"
    ELSE IF any_in(snow_keys, t) THEN "snow"
    ELSE IF any_in(fog_keys, t) THEN "fog"
    ELSE IF Contains(t, wind_key) THEN "wind"
    ELSE IF any_in(cloud_keys, t) THEN "cloud"
    ELSE "clear"

classify_weather(weather_text) ==
    LET t == lower(weather_text) IN
    IF any_in(thunder_keys, t) THEN "thunder"
    ELSE IF any_in(snow_keys, t) THEN "snow"
    ELSE IF any_in(rain_keys, t) THEN "rain"
    ELSE IF any_in(fog_keys, t) THEN "fog"
    ELSE IF Contains(t, wind_key) THEN "wind"
    ELSE IF any_in(cloud_keys, t) THEN "cloud"
    ELSE "clear"

(* ------------------------------ providers ----------------------------- *)

\* the result of a call that may raise
Raised == [ok |-> FALSE, val |-> <<>>]

Ok(v) == [ok |-> TRUE, val |-> v]

\* body: what http_get gave after its retries, Raised when the last attempt failed
weather_from_wttr(body) ==
    IF ~body.ok THEN Raised
    ELSE IF strip(body.val) = <<>> THEN Raised
    ELSE Ok(strip(body.val))

code_map ==
    (0 :> Str(<<"C","l","e","a","r">>)) @@
    (1 :> Str(<<"M","a","i","n","l","y"," ","c","l","e","a","r">>)) @@
    (2 :> Str(<<"P","a","r","t","l","y"," ","c","l","o","u","d","y">>)) @@
    (3 :> Str(<<"O","v","e","r","c","a","s","t">>)) @@
    (45 :> Str(<<"F","o","g">>)) @@
    (48 :> Str(<<"R","i","m","e"," ","f","o","g">>)) @@
    (51 :> Str(<<"L","i","g","h","t"," ","d","r","i","z","z","l","e">>)) @@
    (53 :> Str(<<"D","r","i","z","z","l","e">>)) @@
    (55 :> Str(<<"H","e","a","v","y"," ","d","r","i","z","z","l","e">>)) @@
    (61 :> Str(<<"L","i","g","h","t"," ","r","a","i","n">>)) @@
    (63 :> Str(<<"R","a","i","n">>)) @@
    (65 :> Str(<<"H","e","a","v","y"," ","r","a","i","n">>)) @@
    (71 :> Str(<<"L","i","g","h","t"," ","s","n","o","w">>)) @@
    (73 :> Str(<<"S","n","o","w">>)) @@
    (75 :> Str(<<"H","e","a","v","y"," ","s","n","o","w">>)) @@
    (80 :> Str(<<"R","a","i","n"," ","s","h","o","w","e","r","s">>)) @@
    (81 :> Str(<<"S","h","o","w","e","r","s">>)) @@
    (82 :> Str(<<"V","i","o","l","e","n","t"," ","s","h","o","w","e","r","s">>)) @@
    (95 :> Str(<<"T","h","u","n","d","e","r","s","t","o","r","m">>))

\* f"Weather code {code}"
WeatherCode(code) == Str(<<"W","e","a","t","h","e","r"," ","c","o","d","e"," ">>) \o <<Lit("code")>>

\* body.val: the decoded "current" object, temp and wind being "None" or a chunk
weather_from_open_meteo(body) ==
    IF ~body.ok THEN Raised
    ELSE IF body.val.temp = "None" THEN Raised
    ELSE LET cond == IF body.val.code \in DOMAIN code_map THEN code_map[body.val.code]
                     ELSE WeatherCode(body.val.code)
             first == <<Lit("Dublin: ")>> \o cond \o <<Lit(", "), Lit(body.val.temp), Lit("(deg)C")>>
         IN  IF body.val.wind = "None" THEN Ok(first)
             ELSE Ok(first \o <<Lit(" | ")>> \o Str(<<"W","i","n","d"," ">>)
                        \o <<Lit(body.val.wind)>> \o Str(<<" ","k","m","/","h">>))

\* the primary alone, without the except branch
fetch_weather_primary_only(wb, mb) == weather_from_wttr(wb)

\* the secondary is consulted only when the primary raised
fetch_weather(wb, mb) ==
    IF weather_from_wttr(wb).ok THEN weather_from_wttr(wb)
    ELSE weather_from_open_meteo(mb)

\* "Weather fetch unavailable."
Placeholder == <<Lit("Weather fetch unavailable.")>>

(* ---------------------------- extract_block --------------------------- *)

\* START not in readme or END not in readme  =>  SystemExit
MarkersFound(readme) == In(START, readme) /\ In(END, readme)

\* the places where START \n (.*) \n END matches from position i, by the
\* position j of the newline that closes the group
GroupEnds(readme, i) ==
    {j \in (i + 2)..(Len(readme) - 1) :
        /\ readme[i] = START /\ readme[i + 1] = NL
        /\ readme[j] = NL /\ readme[j + 1] = END}

\* re.search: leftmost start, and the group is greedy
extract_block(readme) ==
    LET starts == {i \in 1..Len(readme) : GroupEnds(readme, i) # {}} IN
    IF starts = {} THEN <<>>
    ELSE LET i == Min(starts) IN strip(SubSeq(readme, i + 2, Max(GroupEnds(readme, i)) - 1))

(* --------------------------- build_new_block -------------------------- *)

\* LINE_RE.match on a right-stripped line: the line begins with the entry
\* prefix and, the prefix ending in a space, has text after it
LINE_RE_match(line) == Len(line) >= 2 /\ line[1].k = "stamp"

\* the window taken one day too long
cutoff_exclusive(now_date) == now_date - KEEP_DAYS

\* inclusive
cutoff(now_date) == now_date - (KEEP_DAYS - 1)

IsBannerLine(line, bl) == strip(line) = strip(bl)

\* the body of the loop for one line that does not raise: is it appended?
KeepLine(line, bl, now_date) ==
    IF IsBannerLine(line, bl) THEN FALSE
    ELSE IF ~LINE_RE_match(line) THEN strip(line) # <<>>
    ELSE fromisoformat(line[1].ymd) >= cutoff(now_date)

\* a date parse that never raises
LineRaises_never(line, bl) == FALSE

\* dt.date.fromisoformat raises ValueError on this line
LineRaises(line, bl) ==
    ~IsBannerLine(line, bl) /\ LINE_RE_match(line) /\ ~ValidDate(line[1].ymd)

Lines(existing_block) ==
    LET ls == splitlines(existing_block) IN [i \in 1..Len(ls) |-> rstrip(ls[i])]

kept_lines(lines, bl, now_date) ==
    SelectSeq(SelectSeq(lines, LAMBDA ln : KeepLine(ln, bl, now_date)),
              LAMBDA ln : ln # header)

\* the filter without the comparison with the new line
IsRest_keep_duplicates(ln, new_line) == strip(ln) # header

IsRest(ln, new_line) == ln # new_line /\ strip(ln) # header

\* the header put above the banner
block_lines_header_first(bl, new_line, rest) == <<header, <<>>, bl, new_line>> \o rest

\* the new line appended below the older lines
block_lines_entry_last(bl, new_line, rest) == <<bl, <<>>, header>> \o rest \o <<new_line>>

block_lines(bl, new_line, rest) == <<bl, <<>>, header, new_line>> \o rest

build_new_block(existing_block, bl, new_line, now_date) ==
    LET lines == Lines(existing_block) IN
    IF \E i \in 1..Len(lines) : LineRaises(lines[i], bl)
    THEN Raised
    ELSE LET rest == SelectSeq(kept_lines(lines, bl, now_date),
                               LAMBDA ln : IsRest(ln, new_line))
             out == strip(join(block_lines(bl, new_line, rest))) \o <<NL>>
         IN  Ok(strip(out))

(* --------------------------- pattern.sub ------------------------------ *)

\* the escapes a replacement template turns into one character
ESCAPES == {"a", "b", "f", "n", "r", "t", "v"}

IsAlnum(a) == a.k = "ch" /\ a.c # " "

\* re's processing of the replacement string: "\\" is a backslash, "\n" a
\* newline, a backslash before any other letter or digit is an error (bad
\* escape, invalid group reference), before anything else it stays
RECURSIVE expand_template(_)
expand_template(t) ==
    LET b == First(BS, t, 1) IN
    IF b = 0 THEN Ok(t)
    ELSE IF b = Len(t) THEN Raised
    ELSE LET r == expand_template(SubSeq(t, b + 2, Len(t)))
             before == SubSeq(t, 1, b - 1)
         IN  IF ~r.ok THEN Raised
             ELSE IF t[b + 1] = BS THEN Ok(before \o <<BS>> \o r.val)
             ELSE IF t[b + 1] = Ch("n") THEN Ok(before \o <<NL>> \o r.val)
             ELSE IF IsAlnum(t[b + 1]) /\ t[b + 1].c \in ESCAPES
                  THEN Ok(before \o <<Atom("ctl", t[b + 1].c, 0, 0)>> \o r.val)
             ELSE IF IsAlnum(t[b + 1]) THEN Raised
             ELSE Ok(before \o <<BS, t[b + 1]>> \o r.val)

\* START.*?END, DOTALL: every non-overlapping span is replaced
RECURSIVE sub(_, _)
sub(repl, s) ==
    LET i == First(START, s, 1)
        j == IF i = 0 THEN 0 ELSE First(END, s, i + 1)
    IN  IF i = 0 \/ j = 0 THEN s
        ELSE SubSeq(s, 1, i - 1) \o repl \o sub(repl, SubSeq(s, j + 1, Len(s)))

replacement(new_block) == <<START, NL>> \o new_block \o <<NL, END>>

\* updated = pattern.sub(replacement, original); the template is compiled
\* before the search, so a bad template raises whether or not a span matches
pattern_sub(new_block, original) ==
    LET template == expand_template(replacement(new_block)) IN
    IF ~template.ok THEN Raised ELSE Ok(sub(template.val, original))

(* -------------------------- write_weather_svg ------------------------- *)

Themes == {"clear", "cloud", "rain", "wind", "fog", "snow", "thunder"}

escape_svg_text(t) ==
    [i \in 1..Len(t) |->
        IF t[i] = Ch("&") THEN Lit("&amp;")
        ELSE IF t[i] = Ch("<") THEN Lit("&lt;")
        ELSE IF t[i] = Ch(">") THEN Lit("&gt;")
        ELSE IF t[i] = Ch("\"") THEN Lit("&quot;")
        ELSE IF t[i] = Ch("'") THEN Lit("&#39;")
        ELSE t[i]]

\* the file written: the gradient and overlay of the theme (an unknown
\* theme takes the gradient and the overlay of "cloud") and the two texts
svg_of(th, title, subtitle) ==
    [theme |-> IF th \in Themes THEN th ELSE "cloud",
     title |-> escape_svg_text(title),
     subtitle |-> escape_svg_text(subtitle)]

(* ------------------------------ bounds -------------------------------- *)

\* invocations of the script by the scheduler
MaxRuns == 2

\* lines of an existing block handed to build_new_block on its own
MaxLines == 3

\* words of a text handed to classify_weather on its own
MaxWords == 2

(* ------------------------------- state -------------------------------- *)

VARIABLES
    readme_exists,  \* os.path.exists(readme_path)
    readme,         \* the text of README.md
    svg,            \* assets/dublin-weather.svg: <<>> until written, then <<file>>
    clock,          \* UTC now: [day |-> day number, minute |-> minute of the day]
    run,            \* invocations started
    pc,             \* where the invocation stands
    status,         \* how it ended: "ok", "SystemExit", "ValueError", "re.error"
    changed,        \* the value update_readme returned
    writes,         \* the files this invocation has written
    calls,          \* the providers this invocation has called
    wttr_body,      \* what the called providers answered, <<>> when not called
    meteo_body,
    original, now_stamp, now_date, weather, entry, theme,
    existing_block, new_block, updated,
    doc0,           \* README.md as the first invocation found it
    log             \* one record per finished invocation

vars == <<readme_exists, readme, svg, clock, run, pc, status, changed, writes,
          calls, wttr_body, meteo_body, original, now_stamp, now_date, weather,
          entry, theme, existing_block, new_block, updated, doc0, log>>

locals == <<original, now_stamp, now_date, weather, entry, theme,
            existing_block, new_block, updated>>

(* ------------------------------ inputs -------------------------------- *)

\* 2026-02-24 09:00 UTC
Clock0 == [day |-> fromisoformat(20260224), minute |-> 540]

\* time between two invocations, in minutes: none, one minute, 9 days 15 hours
Deltas == {0, 1, (9 * 1440) + 900}

Advance(c, delta) ==
    [day |-> c.day + ((c.minute + delta) \div 1440), minute |-> (c.minute + delta) % 1440]

Rain == Str(<<"R","a","i","n">>)

Note == Str(<<"x">>)

WttrBodies == {Raised, Ok(<<SP, NL>>), Ok(Rain \o <<NL>>)}

MeteoBodies ==
    {Raised,
     Ok([temp |-> "None", wind |-> "3", code |-> 0]),
     Ok([temp |-> "8", wind |-> "None", code |-> 0])}

Doc(region) == Note \o <<NL, START>> \o region \o <<END, NL>> \o Note

Old(ymd) == <<Stamp(ymd, 900)>> \o Rain

\* a region with a plain line, entries a day and two months old, an indented
\* banner line and a header line
UsedRegion ==
    <<NL>> \o Note \o <<SP, NL>> \o Old(20260223) \o <<NL>> \o Old(20251224) \o <<NL, SP, BANNER, NL, HEADER, NL>>

InitDocs ==
    {Note,
     Note \o <<START>>,
     <<END, NL>> \o Note \o <<NL, START>>,
     Doc(<<NL>>),
     Doc(<<NL, NL>>),
     Doc(<<SP>> \o Note \o <<SP>>),
     Doc(UsedRegion),
     Doc(<<NL>> \o Old(20260230) \o <<NL>>),
     Doc(<<NL>> \o Note \o <<BS, BS>> \o Str(<<"n">>) \o Note \o <<NL>>),
     Doc(<<NL>> \o Note \o <<BS>> \o Str(<<"d">>) \o <<NL>>),
     Doc(<<NL>> \o Note \o <<NL>>) \o <<SP>> \o Doc(<<NL, NL>>)}

(* ------------------------------ actions ------------------------------- *)

NoLocals ==
    /\ original = <<>> /\ now_stamp = [ymd |-> 0, hm |-> 0] /\ now_date = 0
    /\ weather = <<>> /\ entry = <<>> /\ theme = ""
    /\ existing_block = <<>> /\ new_block = <<>> /\ updated = <<>>

Init ==
    /\ readme_exists \in BOOLEAN
    /\ readme \in InitDocs
    /\ readme_exists = FALSE => readme = Note
    /\ svg = <<>>
    /\ clock = Clock0
    /\ run = 1
    /\ pc = "main"
    /\ status = ""
    /\ changed = FALSE
    /\ writes = {}
    /\ calls = {}
    /\ wttr_body = <<>> /\ meteo_body = <<>>
    /\ NoLocals
    /\ doc0 = readme
    /\ log = <<>>

Finish(st, ch, doc) ==
    /\ pc' = "exit"
    /\ status' = st
    /\ changed' = ch
    /\ log' = Append(log, [status |-> st, changed |-> ch, before |-> original,
                           after |-> doc, entry |-> entry, date |-> now_date])

\* main, and update_readme up to the clock reading
Main ==
    /\ pc = "main"
    /\ IF ~readme_exists
       THEN /\ Finish("SystemExit", FALSE, readme)
            /\ UNCHANGED locals
       ELSE /\ original' = readme
            /\ now_stamp' = [ymd |-> strftime_date(clock.day), hm |-> strftime_time(clock.minute)]
            /\ now_date' = clock.day
            /\ pc' = "fetch"
            /\ UNCHANGED <<status, changed, log, weather, entry, theme,
                           existing_block, new_block, updated>>
    /\ UNCHANGED <<readme_exists, readme, svg, clock, run, writes, calls,
                   wttr_body, meteo_body, doc0>>

\* the try block of update_readme and its except branch
Fetch ==
    /\ pc = "fetch"
    /\ \E wb \in WttrBodies, mb \in MeteoBodies :
         /\ wttr_body' = <<wb>>
         /\ meteo_body' = IF weather_from_wttr(wb).ok THEN <<>> ELSE <<mb>>
         /\ calls' = IF weather_from_wttr(wb).ok THEN {"wttr"} ELSE {"wttr", "open_meteo"}
         /\ LET r == fetch_weather(wb, mb) IN
            IF r.ok
            THEN /\ weather' = r.val
                 /\ theme' = classify_weather(r.val)
            ELSE /\ weather' = Placeholder
                 /\ theme' = "cloud"
    /\ entry' = <<Stamp(now_stamp.ymd, now_stamp.hm)>> \o weather'
    /\ pc' = "render"
    /\ UNCHANGED <<readme_exists, readme, svg, clock, run, status, changed, writes,
                   original, now_stamp, now_date, existing_block, new_block,
                   updated, doc0, log>>

\* write_weather_svg
Render ==
    /\ pc = "render"
    /\ svg' = <<svg_of(theme, <<Lit("Dublin Weather")>>,
                       weather \o <<Lit(" (bullet) Updated "), Atom("now_stamp", "", now_stamp.ymd, now_stamp.hm)>>)>>
    /\ writes' = writes \cup {"svg"}
    /\ wttr_body' = <<>> /\ meteo_body' = <<>>
    /\ pc' = "extract"
    /\ UNCHANGED <<readme_exists, readme, clock, run, status, changed, calls,
                   locals, doc0, log>>

\* extract_block
Extract ==
    /\ pc = "extract"
    /\ IF ~MarkersFound(original)
       THEN /\ Finish("SystemExit", FALSE, readme)
            /\ UNCHANGED existing_block
       ELSE /\ existing_block' = extract_block(original)
            /\ pc' = "build"
            /\ UNCHANGED <<status, changed, log>>
    /\ UNCHANGED <<readme_exists, readme, svg, clock, run, writes, calls, wttr_body,
                   meteo_body, original, now_stamp, now_date, weather, entry, theme,
                   new_block, updated, doc0>>

\* build_new_block
Build ==
    /\ pc = "build"
    /\ LET r == build_new_block(existing_block, banner_line, entry, now_date) IN
       IF ~r.ok
       THEN /\ Finish("ValueError", FALSE, readme)
            /\ UNCHANGED new_block
       ELSE /\ new_block' = r.val
            /\ pc' = "substitute"
            /\ UNCHANGED <<status, changed, log>>
    /\ UNCHANGED <<readme_exists, readme, svg, clock, run, writes, calls, wttr_body,
                   meteo_body, original, now_stamp, now_date, weather, entry, theme,
                   existing_block, updated, doc0>>

\* pattern.sub(replacement, original)
Substitute ==
    /\ pc = "substitute"
    /\ LET r == pattern_sub(new_block, original) IN
       IF ~r.ok
       THEN /\ Finish("re.error", FALSE, readme)
            /\ UNCHANGED updated
       ELSE /\ updated' = r.val
            /\ pc' = "compare"
            /\ UNCHANGED <<status, changed, log>>
    /\ UNCHANGED <<readme_exists, readme, svg, clock, run, writes, calls, wttr_body,
                   meteo_body, original, now_stamp, now_date, weather, entry, theme,
                   existing_block, new_block, doc0>>

\* the comparison with the original and the write of README.md
Compare ==
    /\ pc = "compare"
    /\ IF updated = original
       THEN /\ Finish("ok", FALSE, readme)
            /\ UNCHANGED <<readme, writes>>
       ELSE /\ readme' = updated
            /\ writes' = writes \cup {"readme"}
            /\ Finish("ok", TRUE, updated)
    /\ UNCHANGED <<readme_exists, svg, clock, run, calls, wttr_body, meteo_body,
                   locals, doc0>>

\* the scheduler starts the script again
NextRun ==
    /\ pc = "exit"
    /\ run < MaxRuns
    /\ \E delta \in Deltas : clock' = Advance(clock, delta)
    /\ run' = run + 1
    /\ pc' = "main"
    /\ status' = ""
    /\ changed' = FALSE
    /\ writes' = {}
    /\ calls' = {}
    /\ original' = <<>> /\ now_stamp' = [ymd |-> 0, hm |-> 0] /\ now_date' = 0
    /\ weather' = <<>> /\ entry' = <<>> /\ theme' = ""
    /\ existing_block' = <<>> /\ new_block' = <<>> /\ updated' = <<>>
    /\ UNCHANGED <<readme_exists, readme, svg, wttr_body, meteo_body, doc0, log>>

Next ==
    \/ Main
    \/ Fetch
    \/ Render
    \/ Extract
    \/ Build
    \/ Substitute
    \/ Compare
    \/ NextRun

Spec == Init /\ [][Next]_vars

(* ------------- build_new_block on its own: specification SpecMerge ----- *)

Entry(ymd, text) == <<Stamp(ymd, 900)>> \o text

\* the lines an existing block is made of: the entry of the day with and
\* without trailing space, entries 8 to 12 days old, an entry whose digits
\* name no day, an indented entry, banner and header lines, blank lines, text
MergeLines(today) ==
    {Entry(strftime_date(today), Rain),
     Entry(strftime_date(today), Rain) \o <<SP>>,
     Entry(20260225, Note),
     Entry(20260224, Note),
     Entry(20260222, Note),
     Entry(20260230, Note),
     <<SP>> \o Entry(20260101, Note),
     <<BANNER>>,
     <<SP, BANNER>>,
     <<HEADER>>,
     <<SP, HEADER>>,
     <<>>,
     Note}

MergeDays == {fromisoformat(20260305), fromisoformat(20260306)}

\* what extract_block can return: text without blank ends
MergeBlocks(today) ==
    {strip(join(ls)) : ls \in UNION {[1..n -> MergeLines(today)] : n \in 0..MaxLines}}

InitMerge ==
    /\ readme_exists = TRUE
    /\ readme = <<>>
    /\ svg = <<>>
    /\ run = 1
    /\ pc = "build"
    /\ status = ""
    /\ changed = FALSE
    /\ writes = {}
    /\ calls = {}
    /\ wttr_body = <<>> /\ meteo_body = <<>>
    /\ original = <<>> /\ new_block = <<>> /\ updated = <<>>
    /\ now_date \in MergeDays
    /\ clock = [day |-> now_date, minute |-> 540]
    /\ now_stamp = [ymd |-> strftime_date(now_date), hm |-> 900]
    /\ weather = Rain
    /\ theme = "rain"
    /\ entry = Entry(now_stamp.ymd, Rain)
    /\ existing_block \in MergeBlocks(now_date)
    /\ doc0 = <<>>
    /\ log = <<>>

NextMerge == Build

SpecMerge == InitMerge /\ [][NextMerge]_vars

(* ----------- classify_weather on its own: specification SpecClassify --- *)

Vocabulary ==
    {Str(<<"T","h","u","n","d","e","r">>),
     Str(<<"s","t","o","r","m">>),
     Str(<<"S","N","O","W">>),
     Str(<<"s","l","e","e","t">>),
     Str(<<"b","l","i","z","z","a","r","d">>),
     Str(<<"r","a","i","n">>),
     Str(<<"D","r","i","z","z","l","e">>),
     Str(<<"s","h","o","w","e","r","s">>),
     Str(<<"f","o","g">>),
     Str(<<"m","i","s","t">>),
     Str(<<"h","a","z","e">>),
     Str(<<"W","i","n","d">>),
     Str(<<"o","v","e","r","c","a","s","t">>),
     Str(<<"c","l","o","u","d","y">>),
     Str(<<"s","u","n","n","y">>),
     Str(<<"t","h","u","n","d","e","r","s","h","o","w","e","r","s">>)}

RECURSIVE Sentence(_)
Sentence(ws) ==
    IF ws = <<>> THEN <<>>
    ELSE IF Len(ws) = 1 THEN ws[1]
    ELSE ws[1] \o <<SP>> \o Sentence(Tail(ws))

ClassifyTexts ==
    {Sentence(ws) : ws \in UNION {[1..n -> Vocabulary] : n \in 0..MaxWords}}

InitClassify ==
    /\ readme_exists = TRUE
    /\ readme = <<>>
    /\ svg = <<>>
    /\ clock = Clock0
    /\ run = 1
    /\ pc = "classify"
    /\ status = ""
    /\ changed = FALSE
    /\ writes = {}
    /\ calls = {}
    /\ wttr_body = <<>> /\ meteo_body = <<>>
    /\ original = <<>> /\ now_stamp = [ymd |-> 0, hm |-> 0] /\ now_date = 0
    /\ entry = <<>> /\ theme = ""
    /\ existing_block = <<>> /\ new_block = <<>> /\ updated = <<>>
    /\ weather \in ClassifyTexts
    /\ doc0 = <<>>
    /\ log = <<>>

\* theme = classify_weather(weather)
Classify ==
    /\ pc = "classify"
    /\ theme' = classify_weather(weather)
    /\ pc' = "classified"
    /\ UNCHANGED <<readme_exists, readme, svg, clock, run, status, changed, writes,
                   calls, wttr_body, meteo_body, original, now_stamp, now_date,
                   weather, entry, existing_block, new_block, updated, doc0, log>>

NextClassify == Classify

SpecClassify == InitClassify /\ [][NextClassify]_vars

(* ------------------------------ properties ---------------------------- *)

Count(x, seq) == Cardinality({i \in 1..Len(seq) : seq[i] = x})

MarkersOnce(d) ==
    /\ Count(START, d) = 1 /\ Count(END, d) = 1
    /\ First(START, d, 1) < First(END, d, 1)

RegionOf(d) == SubSeq(d, First(START, d, 1) + 1, First(END, d, 1) - 1)

EmptyRegion(d) == MarkersOnce(d) /\ \A i \in 1..Len(RegionOf(d)) : IsSpace(RegionOf(d)[i])

HasInvalidDateLine(block) ==
    \E i \in 1..Len(Lines(block)) :
        LINE_RE_match(Lines(block)[i]) /\ ~ValidDate(Lines(block)[i][1].ymd)

DatedLines(block) == SelectSeq(Lines(block), LINE_RE_match)

\* the timestamp of entry prefix a is not before that of b
NotEarlier(a, b) == a.ymd > b.ymd \/ (a.ymd = b.ymd /\ a.hm >= b.hm)

NewestFirst(block) ==
    \A i \in 1..(Len(DatedLines(block)) - 1) :
        NotEarlier(DatedLines(block)[i][1], DatedLines(block)[i + 1][1])

AllRunsOk == \A k \in 1..Len(log) : log[k].status = "ok"

\* C1: a run that repeats the entry and the day of the run before it, on a
\* document that had each marker once and no invalid-date line, leaves the
\* document as the run before left it, returns changed = false and ends well.
C1_Idempotent ==
    \A k \in 1..(Len(log) - 1) :
        (/\ log[k].status = "ok"
         /\ MarkersOnce(log[k].before)
         /\ ~HasInvalidDateLine(RegionOf(log[k].before))
         /\ log[k + 1].entry = log[k].entry
         /\ log[k + 1].date = log[k].date)
        => (/\ log[k + 1].status = "ok"
            /\ log[k + 1].changed = FALSE
            /\ log[k + 1].after = log[k].after)

\* C2: every dated entry of the merged block is dated today - 9 days or
\* later; an existing entry dated exactly today - 9 days is in the merged
\* block and one dated today - 10 days or earlier is not.
C2_Retention ==
    pc = "substitute" =>
        /\ \A i \in 1..Len(DatedLines(new_block)) :
               fromisoformat(DatedLines(new_block)[i][1].ymd) >= now_date - 9
        /\ \A i \in 1..Len(DatedLines(existing_block)) :
               LET ln == DatedLines(existing_block)[i] IN
               /\ fromisoformat(ln[1].ymd) = now_date - 9 => Count(ln, Lines(new_block)) >= 1
               /\ fromisoformat(ln[1].ymd) <= now_date - 10 => Count(ln, Lines(new_block)) = 0

C2_Witness ==
    /\ pc = "substitute"
    /\ \E i \in 1..Len(DatedLines(existing_block)) :
           /\ fromisoformat(DatedLines(existing_block)[i][1].ymd) = now_date - 9
           /\ Count(DatedLines(existing_block)[i], Lines(new_block)) = 1
    /\ \E i \in 1..Len(DatedLines(existing_block)) :
           /\ fromisoformat(DatedLines(existing_block)[i][1].ymd) = now_date - 11
           /\ Count(DatedLines(existing_block)[i], Lines(new_block)) = 0

\* C3: the merged block holds the new entry line exactly once, and so does
\* the block got by merging the same line into the merged block again.
C3_OneNewLine ==
    pc = "substitute" =>
        /\ Count(entry, splitlines(new_block)) = 1
        /\ build_new_block(new_block, banner_line, entry, now_date).ok
        /\ Count(entry, splitlines(build_new_block(new_block, banner_line, entry, now_date).val)) = 1

C3_Witness ==
    /\ pc = "substitute"
    /\ Count(entry, Lines(existing_block)) >= 2
    /\ Count(entry, splitlines(new_block)) = 1

\* a line of the existing block that the merge leaves out
Dropped(ln) ==
    \/ strip(ln) = banner_line
    \/ strip(ln) = <<>>
    \/ strip(ln) = header
    \/ ln = entry
    \/ LINE_RE_match(ln) /\ fromisoformat(ln[1].ymd) < now_date - 9

Survives(ln) == ~Dropped(ln)

\* C8: the merged block is the banner line, an empty line, the header line,
\* the new entry line, then the surviving lines of the existing block in
\* their order; banner and header occur once; an empty existing block gives
\* those four lines alone.
C8_BlockShape ==
    pc = "substitute" =>
        LET out == splitlines(new_block) IN
        /\ Len(out) >= 4
        /\ out[1] = banner_line /\ out[2] = <<>> /\ out[3] = header /\ out[4] = entry
        /\ SubSeq(out, 5, Len(out)) = SelectSeq(Lines(existing_block), Survives)
        /\ Count(banner_line, out) = 1
        /\ Count(header, out) = 1
        /\ existing_block = <<>> => Len(out) = 4

C8_Witness ==
    /\ pc = "substitute"
    /\ Len(splitlines(new_block)) = 6
    /\ Count(banner_line, Lines(existing_block)) = 1

\* a letter of the text is the letter of the keyword, in either case
SameLetter(a, b) == a = b \/ (a.k = "ch" /\ a.c \in Upper /\ Ch(LowerOf[a.c]) = b)

Has(text, kw) ==
    \E i \in 0..(Len(text) - Len(kw)) : \A j \in 1..Len(kw) : SameLetter(text[i + j], kw[j])

Priority == <<"thunder", "snow", "rain", "fog", "wind", "cloud">>

Family(th) ==
    CASE th = "thunder" -> thunder_keys
      [] th = "snow" -> snow_keys
      [] th = "rain" -> rain_keys
      [] th = "fog" -> fog_keys
      [] th = "wind" -> {wind_key}
      [] th = "cloud" -> cloud_keys

Present(text) == {i \in 1..Len(Priority) : \E kw \in Family(Priority[i]) : Has(text, kw)}

\* C5: the theme is one of the seven, the theme of the first family in the
\* order thunder, snow, rain, fog, wind, cloud that has a keyword in the
\* text whatever its case, and "clear" when no family has one.
C5_Priority ==
    pc = "classified" =>
        /\ theme \in Themes
        /\ Present(weather) # {} => theme = Priority[Min(Present(weather))]
        /\ Present(weather) = {} => theme = "clear"

C5_Witness ==
    /\ pc = "classified"
    /\ \E kw \in thunder_keys : Has(weather, kw)
    /\ \E kw \in rain_keys : Has(weather, kw)
    /\ theme = "thunder"

PrimaryOk == wttr_body # <<>> /\ wttr_body[1].ok /\ strip(wttr_body[1].val) # <<>>

SecondaryOk == meteo_body # <<>> /\ meteo_body[1].ok /\ meteo_body[1].val.temp # "None"

Fetched ==
    /\ PrimaryOk => weather = strip(wttr_body[1].val) /\ calls = {"wttr"} /\ meteo_body = <<>>
    /\ ~PrimaryOk /\ SecondaryOk =>
           /\ weather = weather_from_open_meteo(meteo_body[1]).val
           /\ calls = {"wttr", "open_meteo"}
    /\ ~PrimaryOk /\ ~SecondaryOk => weather = Placeholder /\ theme = "cloud"
    /\ entry = <<Stamp(now_stamp.ymd, now_stamp.hm)>> \o weather

\* C6: the fetch step never ends the run: it leaves the primary's text when
\* the primary succeeded (the secondary not called), else the secondary's
\* text when it succeeded, else the placeholder with theme "cloud", and the
\* run goes on to the banner.
C6_Fallback == [][pc = "fetch" => (pc' = "render" /\ Fetched')]_vars

C6_Witness ==
    /\ pc = "render"
    /\ ~PrimaryOk /\ ~SecondaryOk
    /\ calls = {"wttr", "open_meteo"}
    /\ weather = Placeholder /\ theme = "cloud"

\* C9: from an empty region and while every run ends well, the dated entries
\* of the region read top to bottom never go forward in time, and after a
\* run its entry is the first of them.
C9_NewestFirst ==
    (EmptyRegion(doc0) /\ AllRunsOk) =>
        /\ NewestFirst(extract_block(readme))
        /\ (pc = "exit" /\ status = "ok") =>
               /\ DatedLines(extract_block(readme)) # <<>>
               /\ DatedLines(extract_block(readme))[1] = entry

C9_Witness ==
    /\ EmptyRegion(doc0) /\ AllRunsOk
    /\ pc = "exit" /\ status = "ok" /\ run = 2
    /\ Len(DatedLines(extract_block(readme))) = 2
    /\ DatedLines(extract_block(readme))[1][1].hm > DatedLines(extract_block(readme))[2][1].hm

\* C10: a build step whose existing block has a line of the entry shape with
\* digits that name no day ends the run with an error, and the document is
\* not written.
C10_InvalidDateFatal ==
    [][(pc = "build" /\ HasInvalidDateLine(existing_block))
         => (pc' = "exit" /\ status' = "ValueError" /\ readme' = readme /\ "readme" \notin writes')]_vars

C10_Witness ==
    /\ pc = "exit" /\ status = "ValueError"
    /\ HasInvalidDateLine(existing_block)
    /\ readme = doc0

\* C4: after the substitution the document still begins with the text up to
\* the first start marker and still ends with the text from the first end
\* marker after it.
C4_OutsideUntouched ==
    (pc = "compare" /\ First(START, original, 1) # 0
       /\ First(END, original, First(START, original, 1)) # 0) =>
        LET i == First(START, original, 1)
            j == First(END, original, i)
            tail == Len(original) - j
        IN  /\ Len(updated) >= i + tail
            /\ SubSeq(updated, 1, i) = SubSeq(original, 1, i)
            /\ SubSeq(updated, Len(updated) - tail, Len(updated)) = SubSeq(original, j, Len(original))

\* C7: a run that ends on a failed precondition has written no file.
C7_NoWriteOnPrecondition == (pc = "exit" /\ status = "SystemExit") => writes = {}

====
